---- MODULE Spec2Model ----
(***************************************************************************)
(* JobQueueManager (plugin-server job queues): construction from the       *)
(* JOB_QUEUES configuration, connectProducer with pruning, and enqueue     *)
(* with ordered failover under the retry executor.                         *)
(* Also the consumer lifecycle broadcasts, getJobQueueTypesAsString, and   *)
(* the run-job form of the plugin interface (interfaceJobsLogic).          *)
(*                                                                         *)
(* A string is a sequence of tokens: a queue-type name is one token, and   *)
(* "," and " " are the separator and the whitespace token.                 *)
(* A backend (JobQueue object) is the record [id, type]: id is its index   *)
(* at construction, type the JobQueueType it was constructed from.         *)
(***************************************************************************)
EXTENDS Integers, Sequences, FiniteSets, TLC

\* Bounds of the model.
MaxConcurrentConnects == 1
MaxAttempts == 2
MaxConfigLen == 5
MaxRequests == 2

VARIABLES pluginsServer, jobQueues, jobQueueTypes, connect, enq,
          paused, broadcast, isPausedResult, typesString, form

vars == <<pluginsServer, jobQueues, jobQueueTypes, connect, enq,
          paused, broadcast, isPausedResult, typesString, form>>

\* State of the consumer side: the backends' pause flags, the broadcast calls
\* and the last value isConsumerPaused returned.
consumerVars == <<paused, broadcast, isPausedResult>>

----------------------------------------------------------------------------
\* Sequence helpers (Array.prototype.map / filter / find over sequences).

Range(s) == {s[i] : i \in 1..Len(s)}

RECURSIVE FilterOut(_, _)
\* s.filter((x) => !drop.has(x))
FilterOut(s, drop) ==
    IF s = <<>> THEN <<>>
    ELSE IF Head(s) \in drop THEN FilterOut(Tail(s), drop)
         ELSE <<Head(s)>> \o FilterOut(Tail(s), drop)

----------------------------------------------------------------------------
\* Constructor: JOB_QUEUES.split(',').map(trim).filter(q => !!q)

RECURSIVE SplitFrom(_, _, _)
SplitFrom(rest, cur, acc) ==
    IF rest = <<>> THEN Append(acc, cur)
    ELSE IF Head(rest) = "," THEN SplitFrom(Tail(rest), <<>>, Append(acc, cur))
         ELSE SplitFrom(Tail(rest), Append(cur, Head(rest)), acc)

Split(s) == SplitFrom(s, <<>>, <<>>)

RECURSIVE TrimStart(_)
TrimStart(s) ==
    IF s # <<>> /\ Head(s) = " " THEN TrimStart(Tail(s)) ELSE s

RECURSIVE TrimEnd(_)
TrimEnd(s) ==
    IF s # <<>> /\ s[Len(s)] = " " THEN TrimEnd(SubSeq(s, 1, Len(s) - 1)) ELSE s

Trim(s) == TrimEnd(TrimStart(s))

RECURSIVE DropEmpty(_)
DropEmpty(ss) ==
    IF ss = <<>> THEN <<>>
    ELSE IF Head(ss) = <<>> THEN DropEmpty(Tail(ss))
         ELSE <<Head(ss)>> \o DropEmpty(Tail(ss))

ParseJobQueueTypes(cfg) ==
    LET parts == Split(cfg)
    IN  DropEmpty([i \in 1..Len(parts) |-> Trim(parts[i])])

\* Keys of the backend registry.
jobQueueMap == {<<"kafka">>, <<"sqs">>}

\* The constructor throws on a type the registry does not know.
ConstructorThrows(cfg) ==
    \E i \in 1..Len(ParseJobQueueTypes(cfg)) : ParseJobQueueTypes(cfg)[i] \notin jobQueueMap

GetQueues(types) == [i \in 1..Len(types) |-> [id |-> i, type |-> types[i]]]

\* Configurations the model is constructed from.
JobQueuesConfigs ==
    { <<"kafka">>,
      <<"kafka", ",", "sqs">>,
      <<" ", "sqs", ",", "kafka", " ", ",", ",", "sqs">> }

\* Every JOB_QUEUES string of at most MaxConfigLen tokens, and the padded
\* string " kafka , sqs ,, ".
Tokens == {"kafka", "sqs", ",", " "}

ConfigStrings ==
    UNION {[1..n -> Tokens] : n \in 0..MaxConfigLen}
       \cup {<<" ", "kafka", " ", ",", " ", "sqs", " ", ",", ",", " ">>}

\* All backends the constructor created.
Constructed == Range(GetQueues(ParseJobQueueTypes(pluginsServer.JOB_QUEUES)))

\* Backends removed from the active list so far.
Pruned == Constructed \ Range(jobQueues)

----------------------------------------------------------------------------
\* connectProducer

ConnectIds == 1..MaxConcurrentConnects

IdleConnect == [pc |-> "idle", snapshot |-> <<>>, status |-> <<>>, toRemove |-> {}]

\* utils.logOrThrowJobQueueError: throws iff CRASH_IF_NO_PERSISTENT_JOB_QUEUE.
LogOrThrowJobQueueErrorThrows(server) == server.CRASH_IF_NO_PERSISTENT_JOB_QUEUE

\* Variant: the call maps over the configured types and connects every
\* backend built at construction.
ConnectProducerCallAll(c) ==
    /\ connect[c].pc \in {"idle", "returned", "raised"}
    /\ \A d \in ConnectIds : d < c => connect[d].pc = "awaiting"
    /\ connect' = [connect EXCEPT ![c] =
                     [pc |-> "awaiting",
                      snapshot |-> GetQueues(jobQueueTypes),
                      status |-> [i \in 1..Len(jobQueueTypes) |-> "pending"],
                      toRemove |-> {}]]
    /\ UNCHANGED <<pluginsServer, jobQueues, jobQueueTypes, enq, consumerVars, typesString, form>>

\* The call maps over this.jobQueues: every backend's connectProducer is
\* issued before the first suspension.  connect[c] is one of the
\* MaxConcurrentConnects calls that can be in flight together (nothing in the
\* code prevents an overlap); a call that has settled leaves its place to
\* the next call.
ConnectProducerCall(c) ==
    /\ connect[c].pc \in {"idle", "returned", "raised"}
    /\ \A d \in ConnectIds : d < c => connect[d].pc = "awaiting"
    /\ connect' = [connect EXCEPT ![c] =
                     [pc |-> "awaiting",
                      snapshot |-> jobQueues,
                      status |-> [i \in 1..Len(jobQueues) |-> "pending"],
                      toRemove |-> {}]]
    /\ UNCHANGED <<pluginsServer, jobQueues, jobQueueTypes, enq, consumerVars, typesString, form>>

\* jobQueue.connectProducer() resolved: the callback logs and fulfils.
BackendConnectOk(c, i) ==
    /\ connect[c].pc # "idle"
    /\ i \in 1..Len(connect[c].snapshot)
    /\ connect[c].status[i] = "pending"
    /\ connect' = [connect EXCEPT ![c].status[i] = "ok"]
    /\ UNCHANGED <<pluginsServer, jobQueues, jobQueueTypes, enq, consumerVars, typesString, form>>

\* Variant: the catch block filters the failed backend out at once, before
\* logOrThrowJobQueueError.
BackendConnectFailPrunes(c, i) ==
    /\ connect[c].pc # "idle"
    /\ i \in 1..Len(connect[c].snapshot)
    /\ connect[c].status[i] = "pending"
    /\ connect' = [connect EXCEPT
                     ![c].status[i] = "failed",
                     ![c].toRemove = @ \cup {connect[c].snapshot[i]},
                     ![c].pc = IF @ = "awaiting" /\ LogOrThrowJobQueueErrorThrows(pluginsServer)
                               THEN "raised" ELSE @]
    /\ jobQueues' = FilterOut(jobQueues, {connect[c].snapshot[i]})
    /\ UNCHANGED <<pluginsServer, jobQueueTypes, enq, consumerVars, typesString, form>>

\* Variant: the catch block swallows the error of logOrThrowJobQueueError.
BackendConnectFailSwallowed(c, i) ==
    /\ connect[c].pc # "idle"
    /\ i \in 1..Len(connect[c].snapshot)
    /\ connect[c].status[i] = "pending"
    /\ connect' = [connect EXCEPT
                     ![c].status[i] = "failed",
                     ![c].toRemove = @ \cup {connect[c].snapshot[i]}]
    /\ UNCHANGED <<pluginsServer, jobQueues, jobQueueTypes, enq, consumerVars, typesString, form>>

\* jobQueue.connectProducer() rejected: the callback adds the backend to
\* toRemove and calls logOrThrowJobQueueError; if that throws, the callback
\* rejects, Promise.all rejects and so does connectProducer.
BackendConnectFail(c, i) ==
    /\ connect[c].pc # "idle"
    /\ i \in 1..Len(connect[c].snapshot)
    /\ connect[c].status[i] = "pending"
    /\ connect' = [connect EXCEPT
                     ![c].status[i] = "failed",
                     ![c].toRemove = @ \cup {connect[c].snapshot[i]},
                     ![c].pc = IF @ = "awaiting" /\ LogOrThrowJobQueueErrorThrows(pluginsServer)
                               THEN "raised" ELSE @]
    /\ UNCHANGED <<pluginsServer, jobQueues, jobQueueTypes, enq, consumerVars, typesString, form>>

\* Variant: the failed backends are recorded but never filtered out.
PruneJobQueuesKeepsAll(queues, toRemove) == queues

\* The filter of lines 56-58.
PruneJobQueues(queues, toRemove) ==
    IF Cardinality(toRemove) > 0 THEN FilterOut(queues, toRemove) ELSE queues

\* Variant: the prune does not wait for the attempts still outstanding.
ConnectProducerResumeEarly(c) ==
    /\ connect[c].pc = "awaiting"
    /\ jobQueues' = PruneJobQueues(jobQueues, connect[c].toRemove)
    /\ connect' = [connect EXCEPT ![c].pc = "returned"]
    /\ UNCHANGED <<pluginsServer, jobQueueTypes, enq, consumerVars, typesString, form>>

\* Promise.all fulfilled: every callback fulfilled; prune and return.
ConnectProducerResume(c) ==
    /\ connect[c].pc = "awaiting"
    /\ \A i \in 1..Len(connect[c].snapshot) : connect[c].status[i] # "pending"
    /\ jobQueues' = PruneJobQueues(jobQueues, connect[c].toRemove)
    /\ connect' = [connect EXCEPT ![c].pc = "returned"]
    /\ UNCHANGED <<pluginsServer, jobQueueTypes, enq, consumerVars, typesString, form>>

----------------------------------------------------------------------------
\* enqueue and _enqueue
\*
\* enq is the enqueue call in flight (or the last one that returned); a call
\* is made once the previous one has returned:
\*   pc        "idle" | "awaitBackend" | "backoff" | "returned" | "raised"
\*   attempt   number of the failover pass (tryFn invocation) of this call
\*   catchFn   invocations of the catch-function in this call
\*   jobName   the jobName argument of the call
\*   success, fail   enqueue_job.success / enqueue_job.fail increments of this call
\*   counters  the increments this call issued on statsd, in order, with tags
\*   accepted  times a backend has taken in the job of this call
\*   iter      the array the for-of loop of the current pass traverses
\*   attempts  backend-level enqueue calls of the current pass, in call order
\*   reports   backends of the per-backend Sentry reports of the current pass
\*   terminal  'No JobQueue available' RetryErrors thrown by the current pass
\*   result    "none" | "running" | "success" | "RetryError" : the current pass

IdleEnqueue ==
    [pc |-> "idle", jobName |-> "none", attempt |-> 0, catchFn |-> 0,
     success |-> 0, fail |-> 0, counters |-> <<>>, accepted |-> 0,
     iter |-> <<>>, attempts |-> <<>>, reports |-> <<>>, terminal |-> 0,
     result |-> "none"]

\* this.pluginsServer.statsd?.increment(name, { jobName })
Increment(e, name) ==
    [e EXCEPT !.counters = Append(@, [name |-> name, jobName |-> e.jobName])]

\* Variant: a pass over an empty list resolves without a metric or an error.
ForNextEmptyResolves(e) ==
    LET i == Len(e.attempts) + 1
    IN  IF i <= Len(e.iter)
        THEN [e EXCEPT !.attempts = Append(@, [q |-> e.iter[i], res |-> "pending"])]
        ELSE IF e.iter = <<>> THEN [e EXCEPT !.result = "success"]
        ELSE Increment([e EXCEPT !.fail = @ + 1, !.terminal = @ + 1,
                                 !.result = "RetryError"], "enqueue_job.fail")

\* Variant: the fall-through path lacks the final throw, so the pass resolves.
ForNextNoThrow(e) ==
    LET i == Len(e.attempts) + 1
    IN  IF i <= Len(e.iter)
        THEN [e EXCEPT !.attempts = Append(@, [q |-> e.iter[i], res |-> "pending"])]
        ELSE Increment([e EXCEPT !.fail = @ + 1, !.terminal = @ + 1,
                                 !.result = "success"], "enqueue_job.fail")

\* Head of the for-of loop: call enqueue on the next backend of the traversed
\* array, or fall through to lines 107-119 when the array is exhausted.
ForNext(e) ==
    LET i == Len(e.attempts) + 1
    IN  IF i <= Len(e.iter)
        THEN [e EXCEPT !.attempts = Append(@, [q |-> e.iter[i], res |-> "pending"])]
        ELSE Increment([e EXCEPT !.fail = @ + 1, !.terminal = @ + 1,
                                 !.result = "RetryError"], "enqueue_job.fail")

\* Variant: the array is captured once per enqueue call and reused by the
\* retry passes.
EnqueuePassStartCached(e, queues) ==
    ForNext([e EXCEPT !.iter = IF e.attempt > 1 THEN e.iter ELSE queues,
                      !.attempts = <<>>, !.reports = <<>>,
                      !.terminal = 0, !.result = "running"])

\* _enqueue up to its first suspension: the loop traverses this.jobQueues as
\* it is when the pass starts.
EnqueuePassStart(e, queues) ==
    ForNext([e EXCEPT !.iter = queues, !.attempts = <<>>, !.reports = <<>>,
                      !.terminal = 0, !.result = "running"])

\* Variant: the return after the success metric is missing, so the loop goes on.
OnBackendEnqueueOkNoReturn(e) ==
    ForNext(Increment([e EXCEPT !.attempts[Len(e.attempts)].res = "ok",
                                !.success = @ + 1], "enqueue_job.success"))

\* jobQueue.enqueue resolved: success metric, return.
OnBackendEnqueueOk(e) ==
    Increment([e EXCEPT !.attempts[Len(e.attempts)].res = "ok",
                        !.success = @ + 1,
                        !.result = "success"], "enqueue_job.success")

\* Variant: the catch block increments the fail metric for each backend.
OnBackendEnqueueFailCounts(e) ==
    ForNext(Increment([e EXCEPT !.attempts[Len(e.attempts)].res = "failed",
                                !.reports = Append(@, e.attempts[Len(e.attempts)].q)],
                      "enqueue_job.fail"))

\* Variant: the catch block stops the failover once a backend holds the job.
OnBackendEnqueueFailDedup(e) ==
    IF e.accepted >= 1
    THEN [e EXCEPT !.attempts[Len(e.attempts)].res = "failed", !.result = "success"]
    ELSE ForNext([e EXCEPT !.attempts[Len(e.attempts)].res = "failed",
                           !.reports = Append(@, e.attempts[Len(e.attempts)].q)])

\* Variant: the catch block takes the next queue without reporting.
OnBackendEnqueueFailNoReport(e) ==
    ForNext([e EXCEPT !.attempts[Len(e.attempts)].res = "failed"])

\* jobQueue.enqueue rejected: report to Sentry, take the next queue.
OnBackendEnqueueFail(e) ==
    ForNext([e EXCEPT !.attempts[Len(e.attempts)].res = "failed",
                      !.reports = Append(@, e.attempts[Len(e.attempts)].q)])

\* Variant: the catch-function rethrows after logging.
CatchFnRethrows(e) == [e EXCEPT !.catchFn = @ + 1, !.pc = "raised"]

\* catchFn of line 83: logs 'Exhausted attempts to enqueue job.' and returns.
CatchFn(e) == [e EXCEPT !.catchFn = @ + 1, !.pc = "returned"]

\* runRetriableFunction under instrument: what the retry executor does with
\* the state of the pass (tryFn).
RunRetriableFunction(e) ==
    CASE e.result = "running" -> [e EXCEPT !.pc = "awaitBackend"]
      [] e.result = "success" -> [e EXCEPT !.pc = "returned"]
      [] e.result = "RetryError" ->
            IF e.attempt < MaxAttempts THEN [e EXCEPT !.pc = "backoff"]
            ELSE CatchFn(e)

JobNames == {"sendReport", "exportData"}

\* enqueue(jobName, job): runs synchronously into the first pass.
Enqueue(jobName) ==
    /\ enq.pc \in {"idle", "returned"}
    /\ enq' = RunRetriableFunction(
                  EnqueuePassStart([IdleEnqueue EXCEPT !.attempt = 1,
                                                       !.jobName = jobName],
                                   jobQueues))
    /\ UNCHANGED <<pluginsServer, jobQueues, jobQueueTypes, connect, consumerVars,
                   typesString, form>>

\* The backend took the job in and its enqueue resolved.
BackendEnqueueOk ==
    /\ enq.pc = "awaitBackend"
    /\ enq' = RunRetriableFunction(
                  OnBackendEnqueueOk([enq EXCEPT !.accepted = @ + 1]))
    /\ UNCHANGED <<pluginsServer, jobQueues, jobQueueTypes, connect, consumerVars,
                   typesString, form>>

\* Variant: a backend that rejected a job is dropped from the active list.
BackendEnqueueFailDropsQueue ==
    /\ enq.pc = "awaitBackend"
    /\ enq' = RunRetriableFunction(OnBackendEnqueueFail(enq))
    /\ jobQueues' = FilterOut(jobQueues, {enq.attempts[Len(enq.attempts)].q})
    /\ UNCHANGED <<pluginsServer, jobQueueTypes, connect, consumerVars, typesString, form>>

\* The backend did not take the job in and its enqueue rejected.
BackendEnqueueFail ==
    /\ enq.pc = "awaitBackend"
    /\ enq' = RunRetriableFunction(OnBackendEnqueueFail(enq))
    /\ UNCHANGED <<pluginsServer, jobQueues, jobQueueTypes, connect, consumerVars,
                   typesString, form>>

\* The backend took the job in and its enqueue rejected all the same (the
\* acknowledgement was lost, or the call timed out after the write).
BackendEnqueueFailAccepted ==
    /\ enq.pc = "awaitBackend"
    /\ enq' = RunRetriableFunction(
                  OnBackendEnqueueFail([enq EXCEPT !.accepted = @ + 1]))
    /\ UNCHANGED <<pluginsServer, jobQueues, jobQueueTypes, connect, consumerVars,
                   typesString, form>>

\* The retry executor's delay elapsed: the next pass (tryFn) starts.
RetryPass ==
    /\ enq.pc = "backoff"
    /\ enq' = RunRetriableFunction(
                  EnqueuePassStart([enq EXCEPT !.attempt = @ + 1], jobQueues))
    /\ UNCHANGED <<pluginsServer, jobQueues, jobQueueTypes, connect, consumerVars,
                   typesString, form>>

----------------------------------------------------------------------------
\* Consumer lifecycle and disconnectProducer: Promise.all over this.jobQueues

BroadcastOps ==
    {"disconnectProducer", "startConsumer", "stopConsumer", "pauseConsumer",
     "resumeConsumer"}

\* broadcast is the broadcast call in flight, or the last one that settled:
\*   op        the operation
\*   pc        "idle" | "awaiting" | "returned" | "raised"
\*   snapshot  the array the call mapped over
\*   status    per backend of snapshot: "pending" | "ok" | "failed"
IdleBroadcast ==
    [op |-> "none", pc |-> "idle", snapshot |-> <<>>, status |-> <<>>]

\* Variant: the consumer side keeps its own list, the backends built at
\* construction.
BroadcastCallAll(op) ==
    /\ broadcast.pc \in {"idle", "returned", "raised"}
    /\ broadcast' = [op |-> op,
                     pc |-> IF jobQueueTypes = <<>> THEN "returned" ELSE "awaiting",
                     snapshot |-> GetQueues(jobQueueTypes),
                     status |-> [i \in 1..Len(jobQueueTypes) |-> "pending"]]
    /\ UNCHANGED <<pluginsServer, jobQueues, jobQueueTypes, connect, enq,
                   paused, isPausedResult, typesString, form>>

\* The call maps over this.jobQueues and issues the backend call on each.
\* A call is made once the previous one has settled.
BroadcastCall(op) ==
    /\ broadcast.pc \in {"idle", "returned", "raised"}
    /\ broadcast' = [op |-> op,
                     pc |-> IF jobQueues = <<>> THEN "returned" ELSE "awaiting",
                     snapshot |-> jobQueues,
                     status |-> [i \in 1..Len(jobQueues) |-> "pending"]]
    /\ UNCHANGED <<pluginsServer, jobQueues, jobQueueTypes, connect, enq,
                   paused, isPausedResult, typesString, form>>

\* Backend: a pauseConsumer that resolved leaves the backend paused, a
\* resumeConsumer that resolved leaves it unpaused.
BackendAfter(op, flag) ==
    CASE op = "pauseConsumer" -> TRUE
      [] op = "resumeConsumer" -> FALSE
      [] OTHER -> flag

\* Variant: the caller resumes with the first backend call that resolves.
BackendCallOkRace(i) ==
    /\ i \in 1..Len(broadcast.snapshot)
    /\ broadcast.status[i] = "pending"
    /\ broadcast' = [broadcast EXCEPT
                       !.status[i] = "ok",
                       !.pc = IF @ = "awaiting" THEN "returned" ELSE @]
    /\ paused' = [paused EXCEPT ![broadcast.snapshot[i].id] =
                     BackendAfter(broadcast.op, @)]
    /\ UNCHANGED <<pluginsServer, jobQueues, jobQueueTypes, connect, enq,
                   isPausedResult, typesString, form>>

\* A backend call of the broadcast resolved; Promise.all fulfils with the
\* last one.
BackendCallOk(i) ==
    /\ i \in 1..Len(broadcast.snapshot)
    /\ broadcast.status[i] = "pending"
    /\ LET st == [broadcast.status EXCEPT ![i] = "ok"]
       IN  broadcast' = [broadcast EXCEPT
                           !.status = st,
                           !.pc = IF @ = "awaiting" /\ \A j \in 1..Len(st) : st[j] = "ok"
                                  THEN "returned" ELSE @]
    /\ paused' = [paused EXCEPT ![broadcast.snapshot[i].id] =
                     BackendAfter(broadcast.op, @)]
    /\ UNCHANGED <<pluginsServer, jobQueues, jobQueueTypes, connect, enq,
                   isPausedResult, typesString, form>>

\* A backend call of the broadcast rejected; Promise.all rejects with the
\* first rejection.
BackendCallFail(i) ==
    /\ i \in 1..Len(broadcast.snapshot)
    /\ broadcast.status[i] = "pending"
    /\ broadcast' = [broadcast EXCEPT
                       !.status[i] = "failed",
                       !.pc = IF @ = "awaiting" THEN "raised" ELSE @]
    /\ UNCHANGED <<pluginsServer, jobQueues, jobQueueTypes, connect, enq,
                   paused, isPausedResult, typesString, form>>

RECURSIVE Find(_, _)
\* Array.prototype.find with the predicate r => r.isConsumerPaused(): the
\* first match as <<r>>, or <<>> for undefined.
Find(queues, flags) ==
    IF queues = <<>> THEN <<>>
    ELSE IF flags[Head(queues).id] THEN <<Head(queues)>>
         ELSE Find(Tail(queues), flags)

\* Variant: true only when every active backend reports paused.
IsConsumerPausedEvery(queues, flags) ==
    \A i \in 1..Len(queues) : flags[queues[i].id]

\* isConsumerPaused(): !!this.jobQueues.find((r) => r.isConsumerPaused())
IsConsumerPaused(queues, flags) == Find(queues, flags) # <<>>

\* isPausedResult is "none" before the first call, then the value of the
\* last call, "true" or "false".
IsConsumerPausedCall ==
    /\ isPausedResult' = (IF IsConsumerPaused(jobQueues, paused) THEN "true" ELSE "false")
    /\ isPausedResult' # isPausedResult
    /\ UNCHANGED <<pluginsServer, jobQueues, jobQueueTypes, connect, enq,
                   paused, broadcast, typesString, form>>

----------------------------------------------------------------------------

\* getJobQueueTypesAsString
\*
\* typesString is the value the last getJobQueueTypesAsString() call returned.

RECURSIVE Join(_, _)
\* ss.join(sep)
Join(ss, sep) ==
    IF ss = <<>> THEN <<>>
    ELSE IF Len(ss) = 1 THEN Head(ss)
         ELSE Head(ss) \o sep \o Join(Tail(ss), sep)

\* Variant: the types are joined with ', '.
GetJobQueueTypesAsStringSpaced(types) == Join(types, <<",", " ">>)

GetJobQueueTypesAsString(types) == Join(types, <<",">>)

GetJobQueueTypesAsStringCall ==
    /\ typesString' = [called |-> TRUE,
                       value |-> GetJobQueueTypesAsString(jobQueueTypes)]
    /\ UNCHANGED <<pluginsServer, jobQueues, jobQueueTypes, connect, enq, consumerVars,
                   form>>

----------------------------------------------------------------------------
\* interfaceJobsLogic: the run-job form of one plugin job.
\*
\* form is the state of the mounted logic and of what it started:
\*   isJobModalOpen, runJobAvailable   the reducers of lines 35-46
\*   runJobAvailableTimeout   the timer id of lines 47-52, 0 for null
\*   timers     ids of the window timers that are set and have not fired
\*   requests   POSTs to api/plugin_config/<id>/job awaiting their response
\*   mounted    FALSE once beforeUnmount has run

InitialForm ==
    [isJobModalOpen |-> FALSE, runJobAvailable |-> TRUE, runJobAvailableTimeout |-> 0,
     timers |-> {}, requests |-> 0, mounted |-> TRUE]

formFrame == <<pluginsServer, jobQueues, jobQueueTypes, connect, enq, consumerVars,
               typesString>>

\* jobPayload.submit up to the await: the modal closes and the request goes out.
Submit(f) == [f EXCEPT !.isJobModalOpen = FALSE, !.requests = @ + 1]

\* The playButtonOnClick listener; submitJobPayload of a job without payload
\* has nothing to validate and runs submit.
PlayButtonOnClick(jobHasEmptyPayload) ==
    /\ form.mounted
    /\ form.requests < MaxRequests
    /\ form' = IF ~form.runJobAvailable THEN form
               ELSE IF jobHasEmptyPayload THEN Submit(form)
               ELSE [form EXCEPT !.isJobModalOpen = TRUE]
    /\ UNCHANGED formFrame

\* The form of the open modal is submitted: submit runs unless errors(payload)
\* reports an error.
SubmitJobPayload(hasErrors) ==
    /\ form.mounted
    /\ form.isJobModalOpen
    /\ form.requests < MaxRequests
    /\ form' = IF hasErrors THEN form ELSE Submit(form)
    /\ UNCHANGED formFrame

\* The modal is dismissed: setIsJobModalOpen(false).
CloseModal ==
    /\ form.mounted
    /\ form.isJobModalOpen
    /\ form' = [form EXCEPT !.isJobModalOpen = FALSE]
    /\ UNCHANGED formFrame

\* api.create rejected: error toast, return.
ApiCreateFails ==
    /\ form.mounted
    /\ form.requests > 0
    /\ form' = [form EXCEPT !.requests = @ - 1]
    /\ UNCHANGED formFrame

\* The id window.setTimeout returns: one no timer that is set has, and not the
\* stored one.
FreshTimer(f) ==
    CHOOSE t \in 1..(Cardinality(f.timers) + 2) :
        t \notin f.timers \cup {f.runJobAvailableTimeout}

\* api.create resolved: the rest of submit, lines 102-116.
ApiCreateOk ==
    /\ form.mounted
    /\ form.requests > 0
    /\ form' = [form EXCEPT
                  !.requests = @ - 1,
                  !.runJobAvailable = FALSE,
                  !.timers = (@ \ {form.runJobAvailableTimeout}) \cup {FreshTimer(form)},
                  !.runJobAvailableTimeout = FreshTimer(form)]
    /\ UNCHANGED formFrame

\* The 15000 ms of a timer elapsed: its callback runs setRunJobAvailable(true).
TimerFires(t) ==
    /\ form.mounted
    /\ t \in form.timers
    /\ form' = [form EXCEPT !.timers = @ \ {t}, !.runJobAvailable = TRUE]
    /\ UNCHANGED formFrame

BeforeUnmount ==
    /\ form.mounted
    /\ form' = [form EXCEPT !.timers = @ \ {form.runJobAvailableTimeout},
                            !.mounted = FALSE]
    /\ UNCHANGED formFrame

----------------------------------------------------------------------------
InitWith(configs) ==
    /\ pluginsServer \in [JOB_QUEUES : configs,
                          CRASH_IF_NO_PERSISTENT_JOB_QUEUE : BOOLEAN]
    /\ ~ConstructorThrows(pluginsServer.JOB_QUEUES)
    /\ jobQueueTypes = ParseJobQueueTypes(pluginsServer.JOB_QUEUES)
    /\ jobQueues = GetQueues(jobQueueTypes)
    /\ connect = [c \in ConnectIds |-> IdleConnect]
    /\ enq = IdleEnqueue
    /\ paused = [i \in 1..Len(jobQueueTypes) |-> FALSE]
    /\ broadcast = IdleBroadcast
    /\ isPausedResult = "none"
    /\ typesString = [called |-> FALSE, value |-> <<>>]
    /\ form = InitialForm

Init == InitWith(JobQueuesConfigs)

\* The manager constructed from any JOB_QUEUES string of ConfigStrings.
InitTypes == InitWith(ConfigStrings)

\* connectProducer and enqueue of one job name (the name only tags the
\* counters; SpecAtLeastOnce enqueues under every name of JobNames).
Next ==
    \/ \E c \in ConnectIds : ConnectProducerCall(c)
    \/ \E c \in ConnectIds : \E i \in 1..Len(connect[c].snapshot) : BackendConnectOk(c, i)
    \/ \E c \in ConnectIds : \E i \in 1..Len(connect[c].snapshot) : BackendConnectFail(c, i)
    \/ \E c \in ConnectIds : ConnectProducerResume(c)
    \/ Enqueue("sendReport")
    \/ BackendEnqueueOk
    \/ BackendEnqueueFail
    \/ RetryPass

Spec == Init /\ [][Next]_vars

\* The consumer side: one connectProducer call, the broadcast operations and
\* isConsumerPaused.
NextConsumer ==
    \/ ConnectProducerCall(1)
    \/ \E i \in 1..Len(connect[1].snapshot) : BackendConnectOk(1, i)
    \/ \E i \in 1..Len(connect[1].snapshot) : BackendConnectFail(1, i)
    \/ ConnectProducerResume(1)
    \/ \E op \in BroadcastOps : BroadcastCall(op)
    \/ \E i \in 1..Len(broadcast.snapshot) : BackendCallOk(i)
    \/ \E i \in 1..Len(broadcast.snapshot) : BackendCallFail(i)
    \/ IsConsumerPausedCall

SpecConsumer == Init /\ [][NextConsumer]_vars

\* connectProducer and getJobQueueTypesAsString, for every configuration.
NextTypes ==
    \/ ConnectProducerCall(1)
    \/ \E i \in 1..Len(connect[1].snapshot) : BackendConnectOk(1, i)
    \/ \E i \in 1..Len(connect[1].snapshot) : BackendConnectFail(1, i)
    \/ ConnectProducerResume(1)
    \/ GetJobQueueTypesAsStringCall

SpecTypes == InitTypes /\ [][NextTypes]_vars

\* The run-job form.
NextJobs ==
    \/ \E jobHasEmptyPayload \in BOOLEAN : PlayButtonOnClick(jobHasEmptyPayload)
    \/ \E hasErrors \in BOOLEAN : SubmitJobPayload(hasErrors)
    \/ CloseModal
    \/ ApiCreateFails
    \/ ApiCreateOk
    \/ \E t \in form.timers : TimerFires(t)
    \/ BeforeUnmount

SpecJobs == Init /\ [][NextJobs]_vars

\* enqueue on the constructed list, with backends that can take a job in and
\* still reject the call.
NextAtLeastOnce ==
    \/ \E jobName \in JobNames : Enqueue(jobName)
    \/ BackendEnqueueOk
    \/ BackendEnqueueFail
    \/ BackendEnqueueFailAccepted
    \/ RetryPass

SpecAtLeastOnce == Init /\ [][NextAtLeastOnce]_vars

\* The behaviours of Spec in which every backend enqueue call eventually
\* returns and the retry executor's delay eventually elapses.
FairSpec ==
    Spec /\ WF_vars(BackendEnqueueOk \/ BackendEnqueueFail) /\ WF_vars(RetryPass)

----------------------------------------------------------------------------
\* Properties

Strict == pluginsServer.CRASH_IF_NO_PERSISTENT_JOB_QUEUE

\* A step that starts a failover pass: a new enqueue call or a retry pass.
PassStarts == enq.pc \in {"idle", "returned", "backoff"} /\ enq' # enq

\* C1: one failover pass tries the backends of the active list in list order,
\* one at a time, and stops at the first success: the attempts made are on
\* positions 1..Len of the traversed list, every attempt but the last has
\* failed, a pass that succeeded ends with its single accepted attempt, and at
\* most one attempt of the pass is accepted.
C1_OrderedFailover ==
    LET a == enq.attempts
        n == Len(enq.attempts)
    IN  /\ n <= Len(enq.iter)
        /\ \A i \in 1..n : a[i].q = enq.iter[i]
        /\ \A i \in 1..(n - 1) : a[i].res = "failed"
        /\ Cardinality({i \in 1..n : a[i].res = "ok"}) <= 1
        /\ enq.result = "success" <=> (n >= 1 /\ a[n].res = "ok")
        /\ enq.result = "running" <=> (n >= 1 /\ a[n].res = "pending")

\* The first backend failed, the second accepted, the third was not consulted.
C1_Witness ==
    /\ enq.result = "success"
    /\ Len(enq.iter) = 3
    /\ Len(enq.attempts) = 2
    /\ enq.attempts[1].res = "failed"
    /\ enq.attempts[2].res = "ok"

\* C2: a pass in which all n backends fail produces exactly n per-backend
\* error reports, one per backend in list order, and one NoBackendAvailable
\* RetryError; the pass records no success.  A pass that has not failed has
\* raised no RetryError.
C2_AllFail ==
    /\ enq.result = "RetryError" =>
          /\ enq.reports = enq.iter
          /\ Len(enq.attempts) = Len(enq.iter)
          /\ \A i \in 1..Len(enq.attempts) : enq.attempts[i].res = "failed"
          /\ enq.terminal = 1
          /\ enq.success = 0
          /\ enq.pc \in {"backoff", "returned"}
    /\ enq.result # "RetryError" => enq.terminal = 0

C2_Witness ==
    /\ enq.result = "RetryError"
    /\ Len(enq.iter) = 3
    /\ Len(enq.reports) = 3

\* C3: no error propagates out of enqueue: the call never ends by raising.
C3_FireAndForget == enq.pc # "raised"

\* enqueue returned although every backend failed on every pass.
C3_Witness ==
    /\ enq.pc = "returned"
    /\ enq.attempt = MaxAttempts
    /\ enq.catchFn = 1
    /\ enq.success = 0
    /\ Len(enq.iter) >= 1

\* connectProducer call c was made on two backends, the first connected and
\* the second failed.
ConnectedFirstOfTwo(c) ==
    /\ Len(connect[c].snapshot) = 2
    /\ connect[c].status = <<"ok", "failed">>

\* C4: in lenient mode connectProducer on [A, B] with A connecting and B
\* failing returns normally and leaves the active list [A]; every failover
\* pass that starts after it has returned traverses at most [A], and the
\* attempts of a pass are on the backends it traverses, so every enqueue
\* called afterwards makes attempts on A only, never on B.
C4_LenientPrune ==
    [][/\ \A c \in ConnectIds :
            /\ ~Strict => connect'[c].pc # "raised"
            /\ (/\ ~Strict
                /\ ConnectedFirstOfTwo(c)
                /\ connect[c].pc = "awaiting"
                /\ connect'[c].pc # "awaiting"
                /\ jobQueues = connect[c].snapshot)
               => /\ connect'[c].pc = "returned"
                  /\ jobQueues' = <<connect[c].snapshot[1]>>
            /\ (/\ ~Strict
                /\ ConnectedFirstOfTwo(c)
                /\ connect[c].pc = "returned"
                /\ PassStarts)
               => /\ Range(enq'.iter) \subseteq {connect[c].snapshot[1]}
                  /\ \A i \in 1..Len(enq'.attempts) :
                        enq'.attempts[i].q = connect[c].snapshot[1]
       /\ ~PassStarts =>
            /\ enq'.iter = enq.iter
            /\ \A i \in 1..Len(enq'.attempts) :
                  i > Len(enq.attempts) => enq'.attempts[i].q \in Range(enq.iter)
      ]_vars

\* After such a connectProducer an enqueue call has tried A on two passes.
C4_Witness ==
    /\ ~Strict
    /\ \E c \in ConnectIds : ConnectedFirstOfTwo(c) /\ connect[c].pc = "returned"
    /\ Len(jobQueues) = 1
    /\ enq.iter = jobQueues
    /\ enq.attempt = 2
    /\ Len(enq.attempts) = 1

\* C5: in strict mode a failed producer activation makes connectProducer
\* raise: a call with a failed backend has raised, and a call that returned
\* normally had no failed backend.
C5_StrictRaises ==
    \A c \in ConnectIds :
        (Strict /\ \E i \in 1..Len(connect[c].snapshot) : connect[c].status[i] = "failed")
           => connect[c].pc = "raised"

C5_Witness ==
    /\ Strict
    /\ \E c \in ConnectIds :
          /\ connect[c].pc = "raised"
          /\ \E i \in 1..Len(connect[c].snapshot) : connect[c].status[i] = "failed"

\* C6: jobQueues and jobQueueTypes have the same length and jobQueueTypes[i]
\* is the type jobQueues[i] was constructed from.
C6_IndexAligned ==
    /\ Len(jobQueues) = Len(jobQueueTypes)
    /\ \A i \in 1..Len(jobQueues) : jobQueueTypes[i] = jobQueues[i].type

\* Indices of the backend-level attempts made by a step.
NewAttempts ==
    {i \in 1..Len(enq'.attempts) : PassStarts \/ i > Len(enq.attempts)}

\* C7 as stated: no backend-level attempt is ever made on a backend that
\* connectProducer has already removed.
C7_NeverTargetsPruned ==
    [][\A i \in NewAttempts : enq'.attempts[i].q \notin Pruned]_vars

\* C7 amended: a pass traverses the active list as it is when the pass
\* starts, so no pass that starts after a prune attempts the pruned backend,
\* retry passes of a call already in flight included; within a pass the
\* traversed array stays the one the pass started on; a removed backend is
\* never put back.
C7_PassStartsOnActiveList ==
    [][/\ PassStarts =>
             /\ enq'.iter = jobQueues
             /\ \A i \in NewAttempts : enq'.attempts[i].q \notin Pruned
       /\ ~PassStarts => enq'.iter = enq.iter
       /\ \A i \in NewAttempts : enq'.attempts[i].q \in Range(enq'.iter)
       /\ Range(jobQueues') \subseteq Range(jobQueues)
      ]_vars

\* A retry pass started after a prune and is trying a backend still active.
C7_Witness ==
    /\ enq.attempt >= 2
    /\ enq.pc = "awaitBackend"
    /\ Len(enq.iter) < Cardinality(Constructed)
    /\ enq.iter = jobQueues

\* C8: no step of enqueue (call, backend return, retry pass) changes
\* jobQueues or jobQueueTypes.
C8_EnqueueFrame ==
    [][enq' # enq => (jobQueues' = jobQueues /\ jobQueueTypes' = jobQueueTypes)]_vars

\* An enqueue call went through failing backends and retry passes to the end.
C8_Witness ==
    /\ enq.pc = "returned"
    /\ enq.attempt = MaxAttempts
    /\ Len(enq.reports) >= 2

\* C9 (safety): the failover routine runs between one and MaxAttempts times
\* per call; a pass starts within a call only after a pass that ended with
\* the RetryError and never after a success; when the call has returned,
\* either one pass succeeded and the catch-function was not invoked, or all
\* MaxAttempts passes failed and the catch-function was invoked exactly once.
C9_RetryInv ==
    /\ enq.pc # "idle" => (enq.attempt >= 1 /\ enq.attempt <= MaxAttempts)
    /\ enq.pc \in {"awaitBackend", "backoff"} => (enq.success = 0 /\ enq.catchFn = 0)
    /\ enq.pc = "backoff" => enq.result = "RetryError"
    /\ enq.fail = (IF enq.result = "RetryError" THEN enq.attempt ELSE enq.attempt - 1)
          \/ enq.pc = "idle"
    /\ enq.pc = "returned" =>
          \/ enq.result = "success" /\ enq.success = 1 /\ enq.catchFn = 0
          \/ /\ enq.result = "RetryError"
             /\ enq.success = 0
             /\ enq.catchFn = 1
             /\ enq.attempt = MaxAttempts

C9_RetryStep ==
    /\ (enq.pc \in {"awaitBackend", "backoff"} /\ enq'.attempt # enq.attempt)
          => /\ enq.pc = "backoff"
             /\ enq.result = "RetryError"
             /\ enq'.attempt = enq.attempt + 1
    /\ (enq.pc \in {"idle", "returned"} /\ enq' # enq) => enq'.attempt = 1

\* C9: the safety part above, and every enqueue call in flight eventually
\* returns when every backend call returns.
C9_RetryUntilDone ==
    /\ []C9_RetryInv
    /\ [][C9_RetryStep]_vars
    /\ (enq.pc \in {"awaitBackend", "backoff"}) ~> (enq.pc = "returned")

\* All passes failed and the catch-function ran once.
C9_Witness ==
    /\ enq.pc = "returned"
    /\ enq.attempt = MaxAttempts
    /\ enq.fail = MaxAttempts
    /\ enq.catchFn = 1


\* C10: isConsumerPaused returns true iff at least one backend of the active
\* list reports paused (so false exactly when all of them report unpaused),
\* the value a call returns is that value, and the call changes nothing else.
C10_AnyPaused ==
    IsConsumerPaused(jobQueues, paused)
       <=> \E i \in 1..Len(jobQueues) : paused[jobQueues[i].id]

C10_CallFrame ==
    isPausedResult' # isPausedResult
       => /\ isPausedResult' = "true"
                <=> \E i \in 1..Len(jobQueues) : paused[jobQueues[i].id]
          /\ isPausedResult' = "false"
                <=> \A i \in 1..Len(jobQueues) : ~paused[jobQueues[i].id]
          /\ UNCHANGED <<pluginsServer, jobQueues, jobQueueTypes, connect, enq,
                         paused, broadcast, typesString, form>>

C10_IsConsumerPaused == []C10_AnyPaused /\ [][C10_CallFrame]_vars

\* isConsumerPaused returned true with one of several active backends paused
\* and another not.
C10_Witness ==
    /\ isPausedResult = "true"
    /\ Len(jobQueues) >= 2
    /\ \E i \in 1..Len(jobQueues) : paused[jobQueues[i].id]
    /\ \E i \in 1..Len(jobQueues) : ~paused[jobQueues[i].id]
    /\ IsConsumerPaused(jobQueues, paused)

----------------------------------------------------------------------------
\* Backend calls of a call record r (connect[c] or broadcast) still pending.
Pending(r) == {i \in 1..Len(r.snapshot) : r.status[i] = "pending"}

Failed(r) == {i \in 1..Len(r.snapshot) : r.status[i] = "failed"}

\* The step is a new broadcast call: the previous one has settled and every
\* backend call of the record is (again) pending.
BroadcastStarts ==
    /\ broadcast.pc # "awaiting"
    /\ broadcast' # broadcast
    /\ \A i \in DOMAIN broadcast'.status : broadcast'.status[i] = "pending"

\* C11 as stated: the caller of connectProducer or of a broadcast operation
\* has never resumed, normally or with an error, while a backend call of that
\* call is still pending.
C11_ResumesAfterAll ==
    /\ \A c \in ConnectIds :
          connect[c].pc \in {"returned", "raised"} => Pending(connect[c]) = {}
    /\ broadcast.pc \in {"returned", "raised"} => Pending(broadcast) = {}

\* C11 amended: the backend calls are issued together on the active list;
\* the caller resumes normally only once every backend call of the call has
\* completed (all resolved, or for connectProducer in lenient mode resolved
\* or rejected); it resumes with an error exactly on the first rejection
\* (for connectProducer, in strict mode), whatever is still pending.
C11_Inv ==
    /\ \A c \in ConnectIds :
          /\ connect[c].pc = "returned" =>
                /\ Pending(connect[c]) = {}
                /\ Strict => Failed(connect[c]) = {}
          /\ connect[c].pc = "raised" => (Strict /\ Failed(connect[c]) # {})
          /\ (connect[c].pc = "awaiting" /\ Strict) => Failed(connect[c]) = {}
    /\ broadcast.pc = "returned" =>
          \A i \in 1..Len(broadcast.snapshot) : broadcast.status[i] = "ok"
    /\ broadcast.pc = "raised" => Failed(broadcast) # {}
    /\ broadcast.pc = "awaiting" => (Failed(broadcast) = {} /\ Pending(broadcast) # {})

C11_Issue ==
    /\ \A c \in ConnectIds :
          (connect[c].pc # "awaiting" /\ connect'[c].pc = "awaiting")
             => /\ connect'[c].snapshot = jobQueues
                /\ \A i \in 1..Len(jobQueues) : connect'[c].status[i] = "pending"
    /\ BroadcastStarts
          => /\ broadcast'.snapshot = jobQueues
             /\ DOMAIN broadcast'.status = 1..Len(jobQueues)

C11_ResumesAfterAllOrFirstFailure == []C11_Inv /\ [][C11_Issue]_vars

\* pauseConsumer returned after both backend calls resolved.
C11_Witness ==
    /\ broadcast.op = "pauseConsumer"
    /\ broadcast.pc = "returned"
    /\ Len(broadcast.snapshot) = 2
    /\ paused[broadcast.snapshot[1].id] /\ paused[broadcast.snapshot[2].id]

\* C12: a connectProducer call only records failed activations while
\* attempts of it are outstanding: jobQueues changes only in the step in
\* which a call with no attempt pending resumes, and a failover pass that
\* starts while the only connectProducer call has an attempt pending
\* traverses the list that call was made on.
C12_PruneAfterAll ==
    [][/\ jobQueues' # jobQueues =>
             \E c \in ConnectIds :
                /\ connect[c].pc = "awaiting"
                /\ Pending(connect[c]) = {}
                /\ connect'[c].pc = "returned"
       /\ \A c \in ConnectIds :
             (/\ connect[c].pc = "awaiting"
              /\ Pending(connect[c]) # {}
              /\ \A d \in ConnectIds \ {c} : connect[d].pc = "idle")
                => /\ jobQueues = connect[c].snapshot
                   /\ PassStarts => enq'.iter = connect[c].snapshot
      ]_vars

\* A failure is recorded, another attempt is pending, and a pass is running
\* on the unpruned list.
C12_Witness ==
    /\ connect[1].pc = "awaiting"
    /\ connect[1].toRemove # {}
    /\ Pending(connect[1]) # {}
    /\ enq.pc = "awaitBackend"
    /\ enq.iter = connect[1].snapshot
    /\ enq.attempts[Len(enq.attempts)].q \in connect[1].toRemove

\* C17: the active list is an order-preserving subsequence of the list built
\* at construction; it changes only when a connectProducer call resumes, to
\* the list without exactly the backends whose connect failed in that call;
\* a connectProducer call attempts the backends of the list as it is then.
C17_Subsequence ==
    /\ Range(jobQueues) \subseteq Constructed
    /\ \A i, j \in 1..Len(jobQueues) : i < j => jobQueues[i].id < jobQueues[j].id
    /\ \A c \in ConnectIds :
          /\ Range(connect[c].snapshot) \subseteq Constructed
          /\ \A i, j \in 1..Len(connect[c].snapshot) :
                i < j => connect[c].snapshot[i].id < connect[c].snapshot[j].id

C17_Step ==
    /\ jobQueues' # jobQueues =>
          \E c \in ConnectIds :
             /\ connect[c].pc = "awaiting" /\ connect'[c].pc = "returned"
             /\ Range(jobQueues') =
                   Range(jobQueues) \ {connect[c].snapshot[i] : i \in Failed(connect[c])}
             /\ \A i, j \in 1..Len(jobQueues') : i < j => jobQueues'[i].id < jobQueues'[j].id
    /\ \A c \in ConnectIds :
          (connect[c].pc # "awaiting" /\ connect'[c].pc = "awaiting")
             => connect'[c].snapshot = jobQueues

C17_OnlyRemoves == []C17_Subsequence /\ [][C17_Step]_vars

\* A repeated connectProducer is connecting the backends left by a prune.
C17_Witness ==
    /\ connect[1].pc = "awaiting"
    /\ Len(connect[1].snapshot) = 2
    /\ Cardinality(Constructed) = 3
    /\ connect[1].snapshot = jobQueues
    /\ connect[1].snapshot[1].id = 1 /\ connect[1].snapshot[2].id = 3

\* C18: in strict mode the active list is never pruned: a connectProducer
\* call that raises leaves jobQueues as it was, so the list stays the one
\* built at construction and a later pass traverses the backend whose
\* activation failed at its original position.
C18_StrictInv == Strict => jobQueues = GetQueues(jobQueueTypes)

C18_StrictStep ==
    /\ \A c \in ConnectIds :
          (connect[c].pc # "raised" /\ connect'[c].pc = "raised")
             => jobQueues' = jobQueues
    /\ (Strict /\ PassStarts) => enq'.iter = GetQueues(jobQueueTypes)

C18_StrictKeepsList == []C18_StrictInv /\ [][C18_StrictStep]_vars

\* After connectProducer raised, a pass attempts the backend that failed to
\* connect, at its original position.
C18_Witness ==
    /\ Strict
    /\ connect[1].pc = "raised"
    /\ enq.pc = "awaitBackend"
    /\ Len(enq.attempts) = 2
    /\ enq.attempts[2].q \in connect[1].toRemove
    /\ enq.attempts[2].q.id = 2

\* C19: every broadcast operation is applied to exactly the backends of the
\* active list at the time of the call, so a backend pruned before the call
\* receives none of its backend calls; a backend's pause flag changes only by
\* a backend call of the broadcast in flight; isConsumerPaused returns true
\* only if a backend of the active list is paused.
C19_Step ==
    /\ BroadcastStarts
          => /\ broadcast'.snapshot = jobQueues
             /\ Range(broadcast'.snapshot) \cap Pruned = {}
    /\ \A k \in DOMAIN paused :
          paused'[k] # paused[k] =>
             \E i \in 1..Len(broadcast.snapshot) :
                broadcast.snapshot[i].id = k /\ broadcast.status[i] = "pending"
    /\ (isPausedResult' # isPausedResult /\ isPausedResult' = "true")
          => \E q \in Range(jobQueues) : paused[q.id]
    /\ (isPausedResult' # isPausedResult /\ \A q \in Range(jobQueues) : ~paused[q.id])
          => isPausedResult' = "false"

C19_Inv == Range(broadcast.snapshot) \subseteq Constructed

C19_PrunedLeavesConsumer == []C19_Inv /\ [][C19_Step]_vars

\* A paused backend has been pruned: resumeConsumer went to the remaining
\* backend only and isConsumerPaused returned false.
C19_Witness ==
    /\ \E q \in Pruned : paused[q.id]
    /\ Len(jobQueues) >= 1
    /\ broadcast.op = "resumeConsumer"
    /\ broadcast.pc = "returned"
    /\ broadcast.snapshot = jobQueues
    /\ isPausedResult = "false"

\* C13: once the active list is empty it stays empty, and every pass that
\* starts on it makes no backend attempt, increments the fail metric once,
\* never the success metric, and raises 'No JobQueue available'; the enqueue
\* call ends, after MaxAttempts passes, by invoking the catch-function once.
C13_EmptyInv ==
    (enq.pc # "idle" /\ enq.iter = <<>>) =>
        /\ enq.attempts = <<>> /\ enq.reports = <<>>
        /\ enq.result = "RetryError" /\ enq.terminal = 1
        /\ enq.success = 0
        /\ enq.pc \in {"backoff", "returned"}
        /\ enq.pc = "returned" <=> enq.attempt = MaxAttempts
        /\ enq.catchFn = (IF enq.pc = "returned" THEN 1 ELSE 0)

C13_EmptyStep ==
    /\ jobQueues = <<>> => jobQueues' = <<>>
    /\ (PassStarts /\ jobQueues = <<>>) =>
          /\ enq'.iter = <<>>
          /\ enq'.fail = (IF enq.pc = "backoff" THEN enq.fail ELSE 0) + 1
          /\ enq'.success = 0

C16_NoGuard ==
    [][(/\ enq.pc = "awaitBackend"
        /\ enq'.accepted >= 1
        /\ Len(enq'.attempts) >= Len(enq.attempts)
        /\ enq'.attempts[Len(enq.attempts)].res = "failed")
          => IF Len(enq.attempts) < Len(enq.iter)
             THEN /\ enq'.pc = "awaitBackend"
                  /\ Len(enq'.attempts) = Len(enq.attempts) + 1
                  /\ enq'.attempts[Len(enq'.attempts)] =
                        [q |-> enq.iter[Len(enq.attempts) + 1], res |-> "pending"]
             ELSE /\ enq'.result = "RetryError"
                  /\ enq'.pc = (IF enq.attempt < MaxAttempts THEN "backoff" ELSE "returned")
      ]_vars

\* A single enqueue call, still in its first pass, in which two backends hold
\* the job.
C16_Witness ==
    /\ enq.attempt = 1
    /\ enq.accepted = 2
    /\ enq.attempts[1].res = "failed"
    /\ enq.attempts[Len(enq.attempts)].res = "ok"
    /\ enq.pc = "returned"

\* The type names of a configuration string, in order.
TypeTokens(cfg) == SelectSeq(cfg, LAMBDA t : t \notin {",", " "})

\* ts[1],ts[2],...: the elements of ts with one "," between neighbours.
CommaSeparated(ts) ==
    [k \in 1..(IF ts = <<>> THEN 0 ELSE 2 * Len(ts) - 1) |->
        IF k % 2 = 1 THEN ts[(k + 1) \div 2] ELSE ","]

\* C15: in every reachable state getJobQueueTypesAsString returns the type
\* names of the JOB_QUEUES configuration in their order, separated by single
\* commas, without the padding and the empty entries (" kafka , sqs ,, "
\* gives "kafka,sqs"), whatever has been pruned; the call changes nothing.
C15_Inv ==
    /\ GetJobQueueTypesAsString(jobQueueTypes)
          = CommaSeparated(TypeTokens(pluginsServer.JOB_QUEUES))
    /\ typesString.called =>
          typesString.value = CommaSeparated(TypeTokens(pluginsServer.JOB_QUEUES))
    /\ (typesString.called /\ pluginsServer.JOB_QUEUES
           = <<" ", "kafka", " ", ",", " ", "sqs", " ", ",", ",", " ">>)
          => typesString.value = <<"kafka", ",", "sqs">>

C15_ConfiguredTypes ==
    /\ []C15_Inv
    /\ [][typesString' # typesString =>
             UNCHANGED <<pluginsServer, jobQueues, jobQueueTypes, connect, enq>>]_vars

\* " kafka , sqs ,, " with kafka pruned: the call returned "kafka,sqs".
C15_Witness ==
    /\ pluginsServer.JOB_QUEUES = <<" ", "kafka", " ", ",", " ", "sqs", " ", ",", ",", " ">>
    /\ typesString.called
    /\ typesString.value = <<"kafka", ",", "sqs">>
    /\ Len(jobQueues) = 1
    /\ jobQueues[1].type = <<"sqs">>

\* C20 as stated: a job-creation request is issued only when no submission
\* is awaiting its response and no successful submission is awaiting its
\* re-enable timer; a playButtonOnClick while runJobAvailable is false
\* changes nothing; at most one timer is pending; a failed API call leaves
\* runJobAvailable unchanged.
C20_NoRageClick ==
    /\ [](Cardinality(form.timers) <= 1)
    /\ [][/\ form'.requests > form.requests =>
                (form.requests = 0 /\ form.runJobAvailable)
          /\ (form'.requests < form.requests /\ form'.timers = form.timers)
                => form'.runJobAvailable = form.runJobAvailable
         ]_vars

====
